---- MODULE Spec2Model ----
(***************************************************************************)
(* Model of the two demonstration scripts                                  *)
(*   src/ollama_instructor_demo.py   (extract_user_details and __main__)   *)
(*   src/structured_output_demo.py   (Method 1: json.loads of a response,  *)
(*                                    Method 2: a UserDetails object)      *)
(*                                                                         *)
(* JSON values are tagged records; a candidate / dict / typed object is a  *)
(* function from field names to JSON values; a missing key is a key that   *)
(* is not in the DOMAIN.                                                   *)
(*                                                                         *)
(* client.chat.completions.create is a call into the instructor library.   *)
(* The source fixes the arguments (response_model=UserDetails,             *)
(* max_retries=3) and what is done with the outcome (return it, or catch   *)
(* any Exception and return None).  How the library spends max_retries is  *)
(* not in the source, so the model keeps it open: the number of backend    *)
(* attempts the library allows (budget) is max_retries or max_retries + 1, *)
(* and a transport failure is either re-attempted or not                   *)
(* (transportRetried).  Both are chosen in Init and never change.          *)
(***************************************************************************)
EXTENDS Integers, Sequences, FiniteSets, TLC

(***************************************************************************)
(* JSON values                                                             *)
(***************************************************************************)
JNull == [k |-> "null", s |-> "", i |-> 0]
JStr(str) == [k |-> "str", s |-> str, i |-> 0]
JInt(num) == [k |-> "int", s |-> "", i |-> num]

EmptyMap == [f \in {} |-> JNull]

\* Values a backend puts in a field.  They are the values on which strict
\* and lax validation agree: a string, a non-numeric string, an integer, null.
BackendValues == {JNull, JStr("Bob"), JStr("thirty"), JInt(30)}

(***************************************************************************)
(* The two UserDetails schemas                                             *)
(***************************************************************************)
\* ollama_instructor_demo.py: city is Optional[str] with Field(description=..)
\* and no default, so the key must be given (its value may be null).
OllamaUserDetails ==
    [fields   |-> {"name", "age", "city"},
     type     |-> [name |-> "str", age |-> "int", city |-> "optstr"],
     required |-> [name |-> TRUE, age |-> TRUE, city |-> TRUE]]

\* structured_output_demo.py: location is Optional[str] with default=None.
DemoUserDetails ==
    [fields   |-> {"name", "age", "location"},
     type     |-> [name |-> "str", age |-> "int", location |-> "optstr"],
     required |-> [name |-> TRUE, age |-> TRUE, location |-> FALSE]]

SchemaOf(which) == IF which = "ollama" THEN OllamaUserDetails ELSE DemoUserDetails

\* The field declared Optional[str].
OptionalField(S) == CHOOSE f \in S.fields : S.type[f] = "optstr"

Candidates(S) == UNION {[D -> BackendValues] : D \in SUBSET S.fields}

\* Does value v conform to the declared type t.
TypeOk(t, v) ==
    CASE t = "str"    -> v.k = "str"
      [] t = "int"    -> v.k = "int"
      [] t = "optstr" -> v.k \in {"str", "null"}

\* Validate with `age` left unchecked, as if it were declared `age: Any`.
ValidateAgeUnchecked(S, c) ==
    LET missing == {f \in S.fields : S.required[f] /\ f \notin DOMAIN c}
        invalid == {f \in (S.fields \cap DOMAIN c) \ {"age"} :
                       ~TypeOk(S.type[f], c[f])}
        errs    == {[field |-> f, reason |-> "missing"] : f \in missing}
                   \cup {[field |-> f, reason |-> "invalid"] : f \in invalid}
    IN  [ok     |-> errs = {},
         obj    |-> IF errs = {}
                    THEN [f \in S.fields |-> IF f \in DOMAIN c THEN c[f] ELSE JNull]
                    ELSE EmptyMap,
         errors |-> errs]

\* Validate with every field given the default None, as if every field
\* were declared with default=None.
ValidateMissingAsNone(S, c) ==
    LET invalid == {f \in S.fields \cap DOMAIN c : ~TypeOk(S.type[f], c[f])}
        errs    == {[field |-> f, reason |-> "invalid"] : f \in invalid}
    IN  [ok     |-> errs = {},
         obj    |-> IF errs = {}
                    THEN [f \in S.fields |-> IF f \in DOMAIN c THEN c[f] ELSE JNull]
                    ELSE EmptyMap,
         errors |-> errs]

\* Construction of a UserDetails from a candidate: all fields are checked,
\* every failing field gives one error, and an object exists only if there
\* is no error.  A key that is not required and not given takes None.
Validate(S, c) ==
    LET missing == {f \in S.fields : S.required[f] /\ f \notin DOMAIN c}
        invalid == {f \in S.fields \cap DOMAIN c : ~TypeOk(S.type[f], c[f])}
        errs    == {[field |-> f, reason |-> "missing"] : f \in missing}
                   \cup {[field |-> f, reason |-> "invalid"] : f \in invalid}
    IN  [ok     |-> errs = {},
         obj    |-> IF errs = {}
                    THEN [f \in S.fields |-> IF f \in DOMAIN c THEN c[f] ELSE JNull]
                    ELSE EmptyMap,
         errors |-> errs]

NoOutcome == [ok |-> FALSE, obj |-> EmptyMap, errors |-> {}]

(***************************************************************************)
(* Python values returned by the functions                                 *)
(***************************************************************************)
NoneValue == [kind |-> "None", v |-> EmptyMap]
ObjectValue(o) == [kind |-> "object", v |-> o]
DictValue(d) == [kind |-> "dict", v |-> d]

\* Truth value of `if x:`: None is false, a dict is true when non-empty,
\* a BaseModel instance is always true.
Truthy(x) ==
    CASE x.kind = "None"   -> FALSE
      [] x.kind = "dict"   -> DOMAIN x.v /= {}
      [] x.kind = "object" -> TRUE

(***************************************************************************)
(* json.loads on a tokenised response                                      *)
(*   "{" "}" ","  punctuation         "w"  whitespace                      *)
(*   "x"  text that is not JSON ("Here is the JSON you requested:")        *)
(*   "pN" "pA" "pL"  a "key": value member                                 *)
(***************************************************************************)
PairTokens == {"pN", "pA", "pL"}

PairKey(t) ==
    CASE t = "pN" -> "name"
      [] t = "pA" -> "age"
      [] t = "pL" -> "location"

PairVal(t) ==
    CASE t = "pN" -> JStr("Alice")
      [] t = "pA" -> JInt(34)
      [] t = "pL" -> JStr("New York")

\* '{\n  "name": "Alice",\n  "age": 34,\n  "location": "New York"\n}'
SimulatedResponse ==
    <<"{", "w", "pN", ",", "w", "pA", ",", "w", "pL", "w", "}">>

ParseFail == [ok |-> FALSE, end |-> 0, d |-> EmptyMap]

RECURSIVE SkipWs(_, _)
SkipWs(s, i) == IF i <= Len(s) /\ s[i] = "w" THEN SkipWs(s, i + 1) ELSE i

\* Members of an object from position i, which must hold a member; a later
\* member with the same key replaces the earlier one.
RECURSIVE ParseMembers(_, _, _)
ParseMembers(s, i, acc) ==
    IF i > Len(s) \/ s[i] \notin PairTokens
    THEN ParseFail
    ELSE LET key  == PairKey(s[i])
             acc2 == [f \in DOMAIN acc \cup {key} |->
                         IF f = key THEN PairVal(s[i]) ELSE acc[f]]
             j    == SkipWs(s, i + 1)
         IN  IF j > Len(s) THEN ParseFail
             ELSE IF s[j] = "}" THEN [ok |-> TRUE, end |-> j + 1, d |-> acc2]
             ELSE IF s[j] = "," THEN ParseMembers(s, SkipWs(s, j + 1), acc2)
             ELSE ParseFail

\* s[i] is "{".
ParseObject(s, i) ==
    LET j == SkipWs(s, i + 1)
    IN  IF j <= Len(s) /\ s[j] = "}"
        THEN [ok |-> TRUE, end |-> j + 1, d |-> EmptyMap]
        ELSE ParseMembers(s, j, EmptyMap)

\* json_loads that stops at the end of the first value, as
\* JSONDecoder.raw_decode does, and ignores what follows.
json_loads_raw_decode(s) ==
    LET i == SkipWs(s, 1)
    IN  IF i > Len(s) \/ s[i] /= "{"
        THEN ParseFail
        ELSE LET r == ParseObject(s, i)
             IN  IF ~r.ok THEN ParseFail ELSE r

\* The whole text must be one JSON document: whitespace, a value, whitespace.
\* Anything else before the value ("Expecting value") or after it
\* ("Extra data") is a JSONDecodeError.
json_loads(s) ==
    LET i == SkipWs(s, 1)
    IN  IF i > Len(s) \/ s[i] /= "{"
        THEN ParseFail
        ELSE LET r == ParseObject(s, i)
             IN  IF ~r.ok THEN ParseFail
                 ELSE IF SkipWs(s, r.end) <= Len(s) THEN ParseFail
                 ELSE r

\* try: return json.loads(response)   except JSONDecodeError: return None
get_user_details_from_prompt(response) ==
    LET r == json_loads(response)
    IN  IF r.ok THEN DictValue(r.d) ELSE NoneValue

\* UserDetails(name="Alice", age=34, location="New York")
get_user_details_with_pydantic ==
    LET r == Validate(DemoUserDetails,
                      [name |-> JStr("Alice"), age |-> JInt(34),
                       location |-> JStr("New York")])
    IN  IF r.ok THEN ObjectValue(r.obj) ELSE NoneValue

(***************************************************************************)
(* State                                                                   *)
(***************************************************************************)
max_retries == 3

VARIABLES
    pc,               \* position in ollama_instructor_demo.py
    n,                \* index of the current attempt inside create()
    attempts,         \* backend calls made so far
    cand,             \* candidate given by the backend in the last attempt
    errors,           \* validation errors of the last validated attempt
    created,          \* the object create() returns
    raised,           \* exception create() raises: none, transport, validation
    propagated,       \* exception leaving extract_user_details
    extracted_user,   \* value extract_user_details returns
    branch,           \* branch __main__ takes
    budget,           \* backend attempts the library allows
    transportRetried, \* does the library re-attempt after a transport failure
    dpc,              \* position in structured_output_demo.py
    user_data,        \* result of Method 1
    user_data_pydantic, \* result of Method 2
    shown,            \* which `if` bodies of structured_output_demo.py ran
    simulated_llm_response, \* the response Method 1 parses
    vschema,          \* schema a candidate is validated against
    vcand,            \* that candidate
    voutcome,         \* outcome of the validation
    vpc               \* has the validation been applied

ollamaVars == <<pc, n, attempts, cand, errors, created, raised, propagated,
                extracted_user, branch, budget, transportRetried>>
demoVars == <<dpc, user_data, user_data_pydantic, shown, simulated_llm_response>>
validateVars == <<vschema, vcand, voutcome, vpc>>
vars == <<ollamaVars, demoVars, validateVars>>

InitOllama ==
    /\ pc = "start"
    /\ n = 0
    /\ attempts = 0
    /\ cand = EmptyMap
    /\ errors = {}
    /\ created = NoneValue
    /\ raised = "none"
    /\ propagated = "none"
    /\ extracted_user = NoneValue
    /\ branch = "none"
    /\ budget \in {max_retries, max_retries + 1}
    /\ transportRetried \in BOOLEAN

InitDemo ==
    /\ simulated_llm_response = SimulatedResponse
    /\ dpc = "method1"
    /\ user_data = NoneValue
    /\ user_data_pydantic = NoneValue
    /\ shown = {}

IdleValidate ==
    /\ vschema = "ollama"
    /\ vcand = EmptyMap
    /\ voutcome = NoOutcome
    /\ vpc = "idle"

Init == InitOllama /\ InitDemo /\ IdleValidate

(***************************************************************************)
(* ollama_instructor_demo.py                                               *)
(***************************************************************************)
\* line 48: enter client.chat.completions.create(..., max_retries=3)
CallCreate ==
    /\ pc = "start"
    /\ pc' = "attempting"
    /\ UNCHANGED <<n, attempts, cand, errors, created, raised, propagated,
                   extracted_user, branch, budget, transportRetried>>

\* One attempt in which the backend answers with candidate c, which the
\* library validates against response_model=UserDetails: a valid candidate
\* ends create() with the object; an invalid one is re-attempted while the
\* library's budget lasts and otherwise ends create() with an exception.
AttemptResponds(c) ==
    /\ pc = "attempting"
    /\ LET r == Validate(OllamaUserDetails, c)
       IN  /\ attempts' = attempts + 1
           /\ cand' = c
           /\ errors' = r.errors
           /\ IF r.ok
              THEN /\ created' = ObjectValue(r.obj)
                   /\ pc' = "created"
                   /\ UNCHANGED <<n, raised>>
              ELSE IF n + 1 < budget
              THEN /\ n' = n + 1
                   /\ pc' = "attempting"
                   /\ UNCHANGED <<created, raised>>
              ELSE /\ raised' = "validation"
                   /\ pc' = "raising"
                   /\ UNCHANGED <<n, created>>
    /\ UNCHANGED <<propagated, extracted_user, branch, budget, transportRetried>>

\* One attempt in which the backend call fails (server not running, model
\* not available).
AttemptFails ==
    /\ pc = "attempting"
    /\ attempts' = attempts + 1
    /\ IF transportRetried /\ n + 1 < budget
       THEN /\ n' = n + 1
            /\ pc' = "attempting"
            /\ UNCHANGED raised
       ELSE /\ raised' = "transport"
            /\ pc' = "raising"
            /\ UNCHANGED n
    /\ UNCHANGED <<cand, errors, created, propagated, extracted_user, branch,
                   budget, transportRetried>>

\* line 53: return user
ReturnUser ==
    /\ pc = "created"
    /\ extracted_user' = created
    /\ pc' = "returned"
    /\ UNCHANGED <<n, attempts, cand, errors, created, raised, propagated,
                   branch, budget, transportRetried>>

\* An `except` clause that names only the validation error.
CatchesValidationOnly(e) == e = "validation"

\* line 54: `except Exception` catches every exception create() raises.
Catches(e) == e \in {"transport", "validation"}

\* A handler that calls create() again instead of returning.
ExceptRetry ==
    /\ pc = "raising"
    /\ pc' = "attempting"
    /\ UNCHANGED <<n, attempts, cand, errors, created, raised, propagated,
                   extracted_user, branch, budget, transportRetried>>

\* lines 54-58: except Exception as e: print(...); return None
\* An exception the clause does not catch leaves extract_user_details and
\* ends the script.
ExceptReturnNone ==
    /\ pc = "raising"
    /\ IF Catches(raised)
       THEN /\ extracted_user' = NoneValue
            /\ pc' = "returned"
            /\ UNCHANGED propagated
       ELSE /\ propagated' = raised
            /\ pc' = "aborted"
            /\ UNCHANGED extracted_user
    /\ UNCHANGED <<n, attempts, cand, errors, created, raised,
                   branch, budget, transportRetried>>

\* lines 69-82: if extracted_user: ... else: ...
MainBranch ==
    /\ pc = "returned"
    /\ branch' = IF Truthy(extracted_user) THEN "success" ELSE "failure"
    /\ pc' = "done"
    /\ UNCHANGED <<n, attempts, cand, errors, created, raised, propagated,
                   extracted_user, budget, transportRetried>>

OllamaNext ==
    \/ CallCreate
    \/ \E c \in Candidates(OllamaUserDetails) : AttemptResponds(c)
    \/ AttemptFails
    \/ ReturnUser
    \/ ExceptReturnNone
    \/ MainBranch

(***************************************************************************)
(* structured_output_demo.py                                               *)
(***************************************************************************)
\* line 48
Method1Call ==
    /\ dpc = "method1"
    /\ user_data' = get_user_details_from_prompt(simulated_llm_response)
    /\ dpc' = "method1_if"
    /\ UNCHANGED <<user_data_pydantic, shown, simulated_llm_response>>

\* lines 50-51
Method1If ==
    /\ dpc = "method1_if"
    /\ shown' = IF Truthy(user_data) THEN shown \cup {"method1"} ELSE shown
    /\ dpc' = "method2"
    /\ UNCHANGED <<user_data, user_data_pydantic, simulated_llm_response>>

\* line 109
Method2Call ==
    /\ dpc = "method2"
    /\ user_data_pydantic' = get_user_details_with_pydantic
    /\ dpc' = "method2_if"
    /\ UNCHANGED <<user_data, shown, simulated_llm_response>>

\* lines 111-113
Method2If ==
    /\ dpc = "method2_if"
    /\ shown' = IF Truthy(user_data_pydantic) THEN shown \cup {"method2"} ELSE shown
    /\ dpc' = "done"
    /\ UNCHANGED <<user_data, user_data_pydantic, simulated_llm_response>>

DemoNext == Method1Call \/ Method1If \/ Method2Call \/ Method2If

Next ==
    \/ OllamaNext /\ UNCHANGED <<demoVars, validateVars>>
    \/ DemoNext /\ UNCHANGED <<ollamaVars, validateVars>>

Spec == Init /\ [][Next]_vars

(***************************************************************************)
(* The parsing of Method 1 (json.loads in try/except) as a function of the *)
(* response: structured_output_demo.py run with any response in place of   *)
(* the simulated one                                                       *)
(***************************************************************************)
MaxLen == 5

Tokens == {"{", "}", ",", "w", "x", "pN", "pA"}

Responses == UNION {[1..l -> Tokens] : l \in 0..MaxLen}

InitResponses ==
    /\ simulated_llm_response \in Responses
    /\ dpc = "method1"
    /\ user_data = NoneValue
    /\ user_data_pydantic = NoneValue
    /\ shown = {}
    /\ InitOllama /\ budget = max_retries /\ transportRetried = FALSE
    /\ IdleValidate

NextResponses == DemoNext /\ UNCHANGED <<ollamaVars, validateVars>>

SpecResponses == InitResponses /\ [][NextResponses]_vars

(***************************************************************************)
(* Construction of a UserDetails of either schema from any candidate       *)
(***************************************************************************)
InitValidate ==
    /\ vschema \in {"ollama", "demo"}
    /\ vcand \in Candidates(SchemaOf(vschema))
    /\ voutcome = NoOutcome
    /\ vpc = "idle"
    /\ InitOllama /\ budget = max_retries /\ transportRetried = FALSE
    /\ InitDemo

ValidateCandidate ==
    /\ vpc = "idle"
    /\ voutcome' = Validate(SchemaOf(vschema), vcand)
    /\ vpc' = "done"
    /\ UNCHANGED <<vschema, vcand, ollamaVars, demoVars>>

NextValidate == ValidateCandidate

SpecValidate == InitValidate /\ [][NextValidate]_vars

(***************************************************************************)
(* Properties                                                              *)
(***************************************************************************)
Returned == pc \in {"returned", "done"}

\* o has name as a string, age as an integer, and the optional field opt as
\* a string, as null, or not at all.
SatisfiesUserDetails(o, opt) ==
    /\ {"name", "age"} \subseteq DOMAIN o
    /\ DOMAIN o \subseteq {"name", "age", opt}
    /\ o["name"].k = "str"
    /\ o["age"].k = "int"
    /\ opt \in DOMAIN o => o[opt].k \in {"str", "null"}

Method1Returned == dpc /= "method1"

Method2Returned == dpc \in {"method2_if", "done"}

ValidationFailureCarriesErrors ==
    (Returned /\ raised = "validation")
        => /\ extracted_user /= NoneValue
           /\ extracted_user.kind = "failure"
           /\ extracted_user.v = errors

Terminal == {"created", "raising", "returned", "done", "aborted"}

\* C7: once create() has ended in success (an object) or in failure (an
\* exception), no further backend attempt, validation or retry happens, the
\* outcome does not change and the extraction stays ended; the attempt index
\* only moves from n to n + 1.
TerminalIsFinal ==
    [][ /\ n' \in {n, n + 1}
        /\ pc \in Terminal
              => /\ pc' \in Terminal
                 /\ attempts' = attempts
                 /\ n' = n
                 /\ cand' = cand
                 /\ errors' = errors
                 /\ created' = created
                 /\ raised' = raised
        /\ (created /= NoneValue => raised' = "none")
        /\ (raised /= "none" => created' = NoneValue) ]_vars

\* The script has finished after an extraction that failed on its last of
\* several attempts.
TerminalIsFinalWitness ==
    pc = "done" /\ raised = "validation" /\ attempts >= 3

\* C10: no exception leaves extract_user_details; it returns None when
\* create() raised, whatever was raised, and otherwise the object create()
\* returned; __main__ takes the failure branch exactly when the value is None.
NeverPropagates ==
    /\ propagated = "none"
    /\ pc /= "aborted"
    /\ Returned =>
          /\ extracted_user.kind \in {"None", "object"}
          /\ raised /= "none" => extracted_user = NoneValue
          /\ raised = "none" => extracted_user = created /\ created.kind = "object"
    /\ pc = "done" =>
          /\ branch \in {"success", "failure"}
          /\ branch = "failure" <=> extracted_user = NoneValue

\* A transport failure was turned into None and the failure branch.
NeverPropagatesWitness ==
    pc = "done" /\ raised = "transport" /\ branch = "failure"

\* name and age are given with their declared types.
NameAndAgeValid(c) ==
    /\ {"name", "age"} \subseteq DOMAIN c
    /\ c["name"].k = "str"
    /\ c["age"].k = "int"

\* C6: under both UserDetails schemas, a candidate with valid name and age
\* whose optional field is absent or null is valid.
OptionalFieldMayBeOmitted ==
    LET opt == OptionalField(SchemaOf(vschema))
    IN  (/\ vpc = "done"
         /\ NameAndAgeValid(vcand)
         /\ (opt \notin DOMAIN vcand \/ vcand[opt].k = "null"))
            => voutcome.ok

\* C8: a candidate that lacks name or age is invalid, with an error that
\* names the missing field, and no object is constructed; a candidate in
\* which name or age is missing or of the wrong type is invalid as a whole,
\* whatever its other fields are.
MissingRequiredFieldIsInvalid ==
    vpc = "done" =>
        /\ \A f \in {"name", "age"} :
              f \notin DOMAIN vcand
                 => /\ ~voutcome.ok
                    /\ voutcome.obj = EmptyMap
                    /\ \E e \in voutcome.errors :
                          e.field = f /\ e.reason = "missing"
        /\ ~NameAndAgeValid(vcand)
              => ~voutcome.ok /\ voutcome.obj = EmptyMap /\ voutcome.errors /= {}

\* A candidate of the schema with a default for its optional field, with a
\* valid name and the optional field, and no age.
MissingRequiredFieldIsInvalidWitness ==
    /\ vpc = "done" /\ vschema = "demo"
    /\ DOMAIN vcand = {"name", "location"}
    /\ vcand["name"].k = "str" /\ vcand["location"].k = "str"
    /\ ~voutcome.ok

\* r[a..b] is a well-formed object and everything around it is text or
\* whitespace, with some text.
PayloadInText(r, a, b) ==
    /\ r[a] = "{" /\ r[b] = "}"
    /\ json_loads(SubSeq(r, a, b)).ok
    /\ \A j \in (1..Len(r)) \ (a..b) : r[j] \in {"x", "w"}
    /\ \E j \in (1..Len(r)) \ (a..b) : r[j] = "x"

\* C9 as stated: a response with a well-formed payload preceded or followed
\* by extra text yields that payload.
ParsingToleratesSurroundingText ==
    Method1Returned =>
        \A a \in 1..Len(simulated_llm_response) :
            \A b \in a..Len(simulated_llm_response) :
                PayloadInText(simulated_llm_response, a, b)
                   => user_data =
                        DictValue(json_loads(SubSeq(simulated_llm_response, a, b)).d)

\* C9 amended: a response with a well-formed payload preceded or followed by
\* extra text yields a parse failure (None), not the payload.
ParsingRejectsSurroundingText ==
    Method1Returned =>
        \A a \in 1..Len(simulated_llm_response) :
            \A b \in a..Len(simulated_llm_response) :
                PayloadInText(simulated_llm_response, a, b)
                   => user_data = NoneValue

\* A payload with a member, with text before and after it, was parsed, and
\* the script went past its `if user_data:` without showing anything.
ParsingRejectsSurroundingTextWitness ==
    /\ dpc = "done"
    /\ simulated_llm_response = <<"x", "{", "pN", "}", "x">>
    /\ user_data = NoneValue
    /\ "method1" \notin shown

====
